---- MODULE Spec2Model ----
(***************************************************************************)
(* hTF sequence-similarity pipeline.                                       *)
(*                                                                         *)
(*   TF-sequence-query.py                  builds the name -> sequence     *)
(*                                         table and the table of pairs    *)
(*                                         with sequences   (SpecQuery)    *)
(*   TF-sequence-similarity-calculation.py maps calculate_similarity_for_  *)
(*                                         pair over the pairs with a      *)
(*                                         process pool          (Spec)    *)
(*   parasail.nw_stats                     the alignment kernel the second *)
(*                                         script calls     (SpecAlign)    *)
(***************************************************************************)
EXTENDS Integers, Sequences, FiniteSets, TLC

VARIABLES
    \* ---- TF-sequence-similarity-calculation.py, main() ----
    pc,             \* position of main(); exit_* after a sys.exit(1), crashed
                    \* after an exception nothing catches
    columns,        \* df_input.columns
    df_input,       \* data_for_pool: the rows, in file order
    num_processes,  \* args.num_processes
    poolCreated,    \* multiprocessing.Pool(...) has been entered
    nextTask,       \* index of the next task the pool's task queue hands out
    running,        \* the tasks the pool's workers are running, one each
    cache,          \* results that came back from workers, by task index
    results,        \* list(pool.imap(...)) as collected so far
    kernelLog,      \* kernelLog[i]: what parasail.nw_stats did for row i
    dispatched,     \* indices handed to calculate_similarity_for_pair so far
    df_output,      \* pd.DataFrame(results, columns=[...])
    written,        \* df_output.to_csv succeeded
    tieBreak,       \* the kernel's fixed rule among equal-score gap moves
    \* ---- the alignment kernel on one pair, both argument orders ----
    a_pc, a_seq1, a_seq2, a_fwd, a_rev,
    \* ---- TF-sequence-query.py, main() ----
    q_pc, q_input, q_todo, sequence_map, fetchLog, q_output

batchVars == <<pc, columns, df_input, num_processes, poolCreated, nextTask,
               running, cache, results, kernelLog, dispatched, df_output,
               written>>
alignVars == <<a_pc, a_seq1, a_seq2, a_fwd, a_rev>>
queryVars == <<q_pc, q_input, q_todo, sequence_map, fetchLog, q_output>>
vars == <<batchVars, tieBreak, alignVars, queryVars>>

(***************************************************************************)
(* Bounds of the model.                                                    *)
(***************************************************************************)
MaxRecords == 3     \* rows in an input table
MaxProcesses == 2   \* args.num_processes ranges over 1..MaxProcesses
MaxSeqLen == 3      \* length of the sequences given to the kernel alone
MaxNames == 2       \* distinct hTF names of the query script's input
MaxPairs == 2       \* rows of the query script's input

(***************************************************************************)
(* Cell values.  A pandas cell or a tuple slot holds a string, a float,    *)
(* math.nan or None; every value is a record of the same shape so that any *)
(* two of them can be compared.  A float is kept as an exact fraction      *)
(* num/den in lowest terms: IEEE division is correctly rounded, so two     *)
(* quotients are the same float exactly when the fractions are equal (for  *)
(* the small operands that occur here).                                    *)
(***************************************************************************)
Str(chars) == [t |-> "str", s |-> chars, num |-> 0, den |-> 1]
nan == [t |-> "nan", s |-> <<>>, num |-> 0, den |-> 1]
None == [t |-> "None", s |-> <<>>, num |-> 0, den |-> 1]

RECURSIVE Gcd(_, _)
Gcd(a, b) == IF b = 0 THEN a ELSE Gcd(b, a % b)

\* The float n/d, d > 0, n >= 0.
Float(n, d) ==
    LET g == Gcd(n, d)
    IN  [t |-> "float", s |-> <<>>, num |-> n \div g, den |-> d \div g]

isinstance_str(v) == v.t = "str"

\* The sentinel the query script writes and the similarity script tests.
NOT_FOUND == Str(<<"N", "O", "T", "_", "F", "O", "U", "N", "D">>)

(***************************************************************************)
(* The scoring scheme.                                                     *)
(***************************************************************************)
GAP_OPEN_PENALTY == 10
GAP_EXTEND_PENALTY == 1

\* The letters of BLOSUM62 the model uses, and their scores (upper triangle
\* of the published matrix; the matrix is symmetric).
Alphabet == {"M", "K", "V", "A", "C", "W"}

Blosum62Upper ==
    [p \in {<<"M", "M">>, <<"M", "K">>, <<"M", "V">>, <<"M", "A">>, <<"M", "C">>,
            <<"M", "W">>, <<"K", "K">>, <<"K", "V">>, <<"K", "A">>, <<"K", "C">>,
            <<"K", "W">>, <<"V", "V">>, <<"V", "A">>, <<"V", "C">>, <<"V", "W">>,
            <<"A", "A">>, <<"A", "C">>, <<"A", "W">>, <<"C", "C">>, <<"C", "W">>,
            <<"W", "W">>} |->
        CASE p = <<"M", "M">> -> 5   [] p = <<"M", "K">> -> -1
          [] p = <<"M", "V">> -> 1   [] p = <<"M", "A">> -> -1
          [] p = <<"M", "C">> -> -1  [] p = <<"M", "W">> -> -1
          [] p = <<"K", "K">> -> 5   [] p = <<"K", "V">> -> -2
          [] p = <<"K", "A">> -> -1  [] p = <<"K", "C">> -> -3
          [] p = <<"K", "W">> -> -3  [] p = <<"V", "V">> -> 4
          [] p = <<"V", "A">> -> 0   [] p = <<"V", "C">> -> -1
          [] p = <<"V", "W">> -> -3  [] p = <<"A", "A">> -> 4
          [] p = <<"A", "C">> -> 0   [] p = <<"A", "W">> -> -3
          [] p = <<"C", "C">> -> 9   [] p = <<"C", "W">> -> -2
          [] p = <<"W", "W">> -> 11]

\* SCORING_MATRIX[a][b].  A symbol outside the matrix's alphabet is scored as
\* the matrix's catch-all symbol '*': 1 against itself, -4 against a letter.
SCORING_MATRIX(a, b) ==
    IF a \in Alphabet /\ b \in Alphabet
    THEN IF <<a, b>> \in DOMAIN Blosum62Upper
         THEN Blosum62Upper[<<a, b>>]
         ELSE Blosum62Upper[<<b, a>>]
    ELSE IF a \notin Alphabet /\ b \notin Alphabet THEN 1 ELSE -4

(***************************************************************************)
(* The alignment kernel: Needleman-Wunsch with affine gaps and statistics. *)
(* A cell keeps, for the best alignment ending there, its score sc, its    *)
(* exact-match columns m, its columns l, and tie: whether a choice between *)
(* the two gap states at equal score was made on the way.                  *)
(*   H  best alignment of the two prefixes                                 *)
(*   E  best one ending with a gap in s1 (a column of s2 alone)            *)
(*   F  best one ending with a gap in s2 (a column of s1 alone)            *)
(* A gap of k columns costs open + (k - 1) * extend.  Among equal scores   *)
(* the diagonal move wins over both gap moves, extending a gap wins over   *)
(* opening one, and tb ("F" or "E") names the gap state that wins over the *)
(* other.                                                                  *)
(***************************************************************************)
NEG_INF == -1000000

Cell(sc, m, l, tie) == [sc |-> sc, m |-> m, l |-> l, tie |-> tie]

GapCell(from, prev, open, gap) ==
    IF from.sc - open > prev.sc - gap
    THEN Cell(from.sc - open, from.m, from.l + 1, from.tie)
    ELSE Cell(prev.sc - gap, prev.m, prev.l + 1, prev.tie)

\* One cell: NWH, NH, WH are the H of the diagonal, upper and left
\* neighbours, Fup the F of the upper one, Eleft the E of the left one.
nw_cell(NWH, NH, Fup, WH, Eleft, a, b, open, gap, tb) ==
    LET F == GapCell(NH, Fup, open, gap)
        E == GapCell(WH, Eleft, open, gap)
        d == NWH.sc + SCORING_MATRIX(a, b)
        H == IF d >= E.sc /\ d >= F.sc
             THEN Cell(d, NWH.m + (IF a = b THEN 1 ELSE 0), NWH.l + 1, NWH.tie)
             ELSE IF F.sc = E.sc
                  THEN IF tb = "F" THEN Cell(F.sc, F.m, F.l, TRUE)
                                   ELSE Cell(E.sc, E.m, E.l, TRUE)
                  ELSE IF F.sc > E.sc THEN F ELSE E
    IN  [H |-> H, E |-> E, F |-> F]

\* Row i from column j on; position j + 1 of a row is column j.
RECURSIVE nw_row(_, _, _, _, _, _, _, _, _, _, _)
nw_row(j, prevH, prevF, accH, accF, E, a, s2, open, gap, tb) ==
    IF j > Len(s2)
    THEN [H |-> accH, F |-> accF]
    ELSE LET c == nw_cell(prevH[j], prevH[j + 1], prevF[j + 1], accH[j], E,
                          a, s2[j], open, gap, tb)
         IN  nw_row(j + 1, prevH, prevF, Append(accH, c.H), Append(accF, c.F),
                    c.E, a, s2, open, gap, tb)

\* The last row, from row i on.
RECURSIVE nw_rows(_, _, _, _, _, _, _, _)
nw_rows(i, prevH, prevF, s1, s2, open, gap, tb) ==
    IF i > Len(s1)
    THEN prevH
    ELSE LET first == Cell(-open - (i - 1) * gap, 0, i, FALSE)
             row == nw_row(1, prevH, prevF, <<first>>,
                           <<Cell(NEG_INF, 0, 0, FALSE)>>,
                           Cell(NEG_INF, 0, 0, FALSE), s1[i], s2, open, gap, tb)
         IN  nw_rows(i + 1, row.H, row.F, s1, s2, open, gap, tb)

\* parasail.nw_stats(s1, s2, open, extend, matrix): score, matches, length.
nw_stats(s1, s2, open, gap, tb) ==
    LET row0H == [j \in 1..(Len(s2) + 1) |->
                     IF j = 1 THEN Cell(0, 0, 0, FALSE)
                     ELSE Cell(-open - (j - 2) * gap, 0, j - 1, FALSE)]
        row0F == [j \in 1..(Len(s2) + 1) |-> Cell(NEG_INF, 0, 0, FALSE)]
        last == nw_rows(1, row0H, row0F, s1, s2, open, gap, tb)[Len(s2) + 1]
    IN  [score |-> last.sc, matches |-> last.m, length |-> last.l,
         tie |-> last.tie]

(***************************************************************************)
(* calculate_similarity_for_pair.                                          *)
(*                                                                         *)
(* What the library call does on one invocation is the environment's:      *)
(*   "result"    nw_stats returns the alignment                            *)
(*   "raise"     nw_stats raises                                           *)
(*   "None"      it returns a falsy result                                 *)
(*   "length_0"  it returns a result whose length is 0                     *)
(* A call of the function returns [raised, value]: value is the tuple it   *)
(* returns, raised says that an exception left the function instead.       *)
(***************************************************************************)
KernelOutcomes == {"result", "raise", "None", "length_0"}

Returned(tuple) == [raised |-> FALSE, value |-> tuple]
Raised == [raised |-> TRUE, value |-> <<>>]

\* The keys the function reads from its row.
RowKeys == {"hTF1", "hTF2", "Sequence_hTF1", "Sequence_hTF2", "similarity"}

\* A plausible slip: the first sequence passed twice.
alignment_result_same_seq(seq1, seq2, tb) ==
    nw_stats(seq1.s, seq1.s, GAP_OPEN_PENALTY, GAP_EXTEND_PENALTY, tb)

\* parasail.nw_stats(seq1, seq2, GAP_OPEN_PENALTY, GAP_EXTEND_PENALTY, SCORING_MATRIX)
alignment_result(seq1, seq2, tb) ==
    nw_stats(seq1.s, seq2.s, GAP_OPEN_PENALTY, GAP_EXTEND_PENALTY, tb)

\* A plausible slip: the else branch gives math.nan.
identity_from_result_nan(outcome, ar) ==
    IF outcome = "result" /\ ar.length > 0
    THEN Float(100 * ar.matches, ar.length)
    ELSE nan

\* A plausible slip: the fraction is not scaled to a percentage.
identity_from_result_fraction(outcome, ar) ==
    IF outcome = "result" /\ ar.length > 0
    THEN Float(ar.matches, ar.length)
    ELSE Float(0, 1)

\* The if/else on alignment_result: (matches / length) * 100, or 0.0.
identity_from_result(outcome, ar) ==
    IF outcome = "result" /\ ar.length > 0
    THEN Float(100 * ar.matches, ar.length)
    ELSE Float(0, 1)

\* A plausible slip: no except clause, the kernel's exception propagates.
try_alignment_no_except(seq1, seq2, outcome, tb) ==
    IF outcome = "raise"
    THEN [raised |-> TRUE, v |-> nan]
    ELSE [raised |-> FALSE,
          v |-> identity_from_result(outcome, alignment_result(seq1, seq2, tb))]

\* The try block: percent_identity, math.nan when the kernel raised.
try_alignment(seq1, seq2, outcome, tb) ==
    IF outcome = "raise"
    THEN [raised |-> FALSE, v |-> nan]
    ELSE [raised |-> FALSE,
          v |-> identity_from_result(outcome, alignment_result(seq1, seq2, tb))]

\* Whether the two guards let the row through to the kernel.
reaches_kernel(row) ==
    /\ RowKeys \subseteq DOMAIN row
    /\ row.Sequence_hTF1 # NOT_FOUND /\ row.Sequence_hTF2 # NOT_FOUND
    /\ isinstance_str(row.Sequence_hTF1) /\ isinstance_str(row.Sequence_hTF2)
    /\ row.Sequence_hTF1.s # <<>> /\ row.Sequence_hTF2.s # <<>>

calculate_similarity_for_pair(row, outcome, tb) ==
    IF ~(RowKeys \subseteq DOMAIN row)
    THEN Raised     \* KeyError
    ELSE LET hTF1 == row.hTF1
             hTF2 == row.hTF2
             seq1 == row.Sequence_hTF1
             seq2 == row.Sequence_hTF2
             similarity == row.similarity
         IN  IF seq1 = NOT_FOUND \/ seq2 = NOT_FOUND
             THEN Returned(<<hTF1, hTF2, nan>>)
             ELSE IF \/ ~isinstance_str(seq1) \/ ~isinstance_str(seq2)
                     \/ seq1.s = <<>> \/ seq2.s = <<>>
                  THEN Returned(<<hTF1, hTF2, nan>>)
                  ELSE LET t == try_alignment(seq1, seq2, outcome, tb)
                       IN  IF t.raised
                           THEN Raised
                           ELSE Returned(<<hTF1, hTF2, seq1, seq2, t.v,
                                           similarity>>)

(***************************************************************************)
(* pd.DataFrame(results, columns=[six names]).  pandas lays a list of      *)
(* tuples out as an object array as wide as the longest tuple, the missing *)
(* slots None; it raises ValueError when that width is not the number of   *)
(* column names; a column of floats and None becomes a float column, its   *)
(* None read as NaN.  An empty list gives an empty frame.                  *)
(***************************************************************************)
OutputColumns == <<"hTF1", "hTF2", "Sequence_hTF1", "Sequence_hTF2",
                   "Similarity_PercentIdentity", "Similarity">>

RECURSIVE MaxLen(_)
MaxLen(tuples) ==
    IF tuples = <<>> THEN 0
    ELSE LET rest == MaxLen(Tail(tuples))
         IN  IF Len(Head(tuples)) > rest THEN Len(Head(tuples)) ELSE rest

DataFrame(tuples) ==
    LET width == MaxLen(tuples)
        slot(i, k) == IF k <= Len(tuples[i]) THEN tuples[i][k] ELSE None
        floats(k) == \A i \in 1..Len(tuples) :
                         slot(i, k).t \in {"float", "nan", "None"}
        cell(i, k) == IF slot(i, k) = None /\ floats(k) THEN nan ELSE slot(i, k)
    IN  IF tuples # <<>> /\ width # Len(OutputColumns)
        THEN [raised |-> TRUE, rows |-> <<>>]     \* ValueError
        ELSE [raised |-> FALSE,
              rows |-> [i \in 1..Len(tuples) |->
                           [c \in {OutputColumns[k] : k \in 1..Len(OutputColumns)} |->
                               cell(i, CHOOSE k \in 1..Len(OutputColumns) :
                                           OutputColumns[k] = c)]]]

(***************************************************************************)
(* main() of TF-sequence-similarity-calculation.py.                        *)
(***************************************************************************)
Name(x) == Str(<<x>>)
MKV == Str(<<"M", "K", "V">>)
MKA == Str(<<"M", "K", "A">>)

\* Rows an input table is made of: a pair the kernel aligns, a pair with the
\* sentinel, a pair with an empty string and an empty cell (pandas reads the
\* cell as NaN), a pair whose alignment has no match column.
SampleRows ==
    { [hTF1 |-> Name("TF1"), Sequence_hTF1 |-> MKV,
       hTF2 |-> Name("TF2"), Sequence_hTF2 |-> MKA, similarity |-> Float(1, 2)],
      [hTF1 |-> Name("TF3"), Sequence_hTF1 |-> NOT_FOUND,
       hTF2 |-> Name("TF4"), Sequence_hTF2 |-> MKV, similarity |-> Float(1, 4)],
      [hTF1 |-> Name("TF5"), Sequence_hTF1 |-> Str(<<>>),
       hTF2 |-> Name("TF6"), Sequence_hTF2 |-> nan, similarity |-> Float(3, 4)],
      [hTF1 |-> Name("TF7"), Sequence_hTF1 |-> Str(<<"K">>),
       hTF2 |-> Name("TF8"), Sequence_hTF2 |-> Str(<<"W">>),
       similarity |-> Float(1, 8)] }

required_columns == {"hTF1", "Sequence_hTF1", "hTF2", "Sequence_hTF2", "similarity"}

\* The header lines an input file may have.
ColumnSets ==
    { required_columns,
      required_columns \ {"similarity"},
      required_columns \ {"Sequence_hTF2"} }

\* A row of a table with the columns cols.
RowOf(r, cols) == [c \in cols |-> IF c \in DOMAIN r THEN r[c] ELSE Str(<<>>)]

TieBreaks == {"F", "E"}

n_rows == Len(df_input)

\* A plausible slip: any() in place of all().
columns_present_any(cols) == \E col \in required_columns : col \in cols

\* all(col in df_input.columns for col in required_columns)
columns_present(cols) == \A col \in required_columns : col \in cols

\* A plausible slip: imap_unordered, whatever has come back is yielded.
imap_ready_unordered(c, k) == DOMAIN c

\* pool.imap's iterator: after k results, only the result of task k + 1 is
\* yielded, and only once it has come back.
imap_ready(c, k) == IF k + 1 \in DOMAIN c THEN {k + 1} ELSE {}

AlignIdle ==
    /\ a_pc = "off" /\ a_seq1 = <<>> /\ a_seq2 = <<>>
    /\ a_fwd = <<>> /\ a_rev = <<>>

QueryIdle ==
    /\ q_pc = "off" /\ q_input = <<>> /\ q_todo = <<>>
    /\ sequence_map = <<>> /\ fetchLog = <<>> /\ q_output = <<>>

BatchIdle ==
    /\ pc = "off" /\ columns = {} /\ df_input = <<>> /\ num_processes = 1
    /\ poolCreated = FALSE /\ nextTask = 1 /\ running = {} /\ cache = <<>>
    /\ results = <<>> /\ kernelLog = <<>> /\ dispatched = {}
    /\ df_output = <<>> /\ written = FALSE

Init ==
    /\ pc = "start"
    /\ columns \in ColumnSets
    /\ \E n \in 0..MaxRecords :
           \E rows \in [1..n -> SampleRows] :
               df_input = [i \in 1..n |-> RowOf(rows[i], columns)]
    /\ num_processes \in 1..MaxProcesses
    /\ tieBreak = "F"   \* no alignment of SampleRows has a tie to break
    /\ poolCreated = FALSE
    /\ nextTask = 1
    /\ running = {}
    /\ cache = <<>>
    /\ results = <<>>
    /\ kernelLog = [i \in 1..Len(df_input) |-> "not called"]
    /\ dispatched = {}
    /\ df_output = <<>>
    /\ written = FALSE
    /\ AlignIdle
    /\ QueryIdle

\* pd.read_csv(args.input): the file is read, or the read fails and the
\* script exits.
ReadInput ==
    /\ pc = "start"
    /\ \/ pc' = "loaded"
       \/ pc' = "exit_read"
    /\ UNCHANGED <<columns, df_input, num_processes, poolCreated, nextTask,
                   running, cache, results, kernelLog, dispatched, df_output,
                   written, tieBreak, alignVars, queryVars>>

\* The check of required_columns, then to_dict('records').
Validate ==
    /\ pc = "loaded"
    /\ pc' = IF columns_present(columns) THEN "validated" ELSE "exit_columns"
    /\ UNCHANGED <<columns, df_input, num_processes, poolCreated, nextTask,
                   running, cache, results, kernelLog, dispatched, df_output,
                   written, tieBreak, alignVars, queryVars>>

\* with multiprocessing.Pool(processes=args.num_processes) as pool: imap(...)
CreatePool ==
    /\ pc = "validated"
    /\ pc' = "imap"
    /\ poolCreated' = TRUE
    /\ UNCHANGED <<columns, df_input, num_processes, nextTask, running, cache,
                   results, kernelLog, dispatched, df_output, written,
                   tieBreak, alignVars, queryVars>>

\* An idle worker (the pool has num_processes of them, all alike) takes the
\* next task off the pool's task queue.
WorkerTake ==
    /\ pc = "imap"
    /\ Cardinality(running) < num_processes
    /\ nextTask <= n_rows
    /\ running' = running \cup {nextTask}
    /\ nextTask' = nextTask + 1
    /\ dispatched' = dispatched \cup {nextTask}
    /\ UNCHANGED <<pc, columns, df_input, num_processes, poolCreated, cache,
                   results, kernelLog, df_output, written, tieBreak,
                   alignVars, queryVars>>

\* The worker running task i finishes calculate_similarity_for_pair on row i
\* and sends the outcome back under the task's index.
WorkerFinish(i) ==
    /\ pc = "imap"
    /\ i \in running
    /\ \E outcome \in (IF reaches_kernel(df_input[i]) THEN KernelOutcomes
                        ELSE {"not called"}) :
           /\ kernelLog' = [kernelLog EXCEPT ![i] = outcome]
           /\ cache' = [j \in DOMAIN cache \cup {i} |->
                           IF j = i
                           THEN calculate_similarity_for_pair(df_input[i],
                                                              outcome, tieBreak)
                           ELSE cache[j]]
    /\ running' = running \ {i}
    /\ UNCHANGED <<pc, columns, df_input, num_processes, poolCreated, nextTask,
                   results, dispatched, df_output, written, tieBreak,
                   alignVars, queryVars>>

\* list(...) takes the next result from the iterator; an exception a worker
\* sent back is raised here, in main().
NextResult ==
    /\ pc = "imap"
    /\ Len(results) < n_rows
    /\ \E i \in imap_ready(cache, Len(results)) :
           /\ cache' = [j \in DOMAIN cache \ {i} |-> cache[j]]
           /\ IF cache[i].raised
              THEN pc' = "crashed" /\ results' = results
              ELSE pc' = pc /\ results' = Append(results, cache[i].value)
    /\ UNCHANGED <<columns, df_input, num_processes, poolCreated, nextTask,
                   running, kernelLog, dispatched, df_output, written, tieBreak,
                   alignVars, queryVars>>

\* The iterator is exhausted and the with block is left.
PoolDone ==
    /\ pc = "imap"
    /\ Len(results) = n_rows
    /\ pc' = "collected"
    /\ UNCHANGED <<columns, df_input, num_processes, poolCreated, nextTask,
                   running, cache, results, kernelLog, dispatched, df_output,
                   written, tieBreak, alignVars, queryVars>>

\* df_output = pd.DataFrame(results, columns=[...])
BuildOutput ==
    /\ pc = "collected"
    /\ LET df == DataFrame(results)
       IN  IF df.raised
           THEN pc' = "crashed" /\ df_output' = df_output
           ELSE pc' = "built" /\ df_output' = df.rows
    /\ UNCHANGED <<columns, df_input, num_processes, poolCreated, nextTask,
                   running, cache, results, kernelLog, dispatched, written,
                   tieBreak, alignVars, queryVars>>

\* df_output.to_csv(args.output): written, or the write fails and the script
\* exits.
SaveOutput ==
    /\ pc = "built"
    /\ \/ pc' = "done" /\ written' = TRUE
       \/ pc' = "exit_save" /\ written' = FALSE
    /\ UNCHANGED <<columns, df_input, num_processes, poolCreated, nextTask,
                   running, cache, results, kernelLog, dispatched, df_output,
                   tieBreak, alignVars, queryVars>>

Next ==
    \/ ReadInput
    \/ Validate
    \/ CreatePool
    \/ WorkerTake
    \/ \E i \in 1..n_rows : WorkerFinish(i)
    \/ NextResult
    \/ PoolDone
    \/ BuildOutput
    \/ SaveOutput

Spec == Init /\ [][Next]_vars

(***************************************************************************)
(* Properties of the batch run.                                            *)
(***************************************************************************)
OutputBuilt == pc \in {"built", "done"}

HasSentinel(row) ==
    row.Sequence_hTF1 = NOT_FOUND \/ row.Sequence_hTF2 = NOT_FOUND

\* What applying the function to the rows one after the other gives, the
\* kernel behaving on each row as it did in this run.
SequentialResults ==
    [i \in 1..n_rows |->
        calculate_similarity_for_pair(df_input[i], kernelLog[i], tieBreak).value]

\* C1: a row with the sentinel in either sequence gives a result, and an
\* output record, whose percent identity is not-a-number and whose two
\* sequence fields are the row's two sequence values.
C1_SentinelPropagation ==
    /\ \A i \in 1..Len(results) :
           HasSentinel(df_input[i]) =>
               /\ Len(results[i]) = Len(OutputColumns)
               /\ results[i][3] = df_input[i].Sequence_hTF1
               /\ results[i][4] = df_input[i].Sequence_hTF2
               /\ results[i][5] = nan
    /\ OutputBuilt =>
           \A i \in 1..Len(df_output) :
               HasSentinel(df_input[i]) =>
                   /\ df_output[i].Similarity_PercentIdentity = nan
                   /\ df_output[i].Sequence_hTF1 = df_input[i].Sequence_hTF1
                   /\ df_output[i].Sequence_hTF2 = df_input[i].Sequence_hTF2

\* C2: the i-th collected result, and the i-th output record, carry the
\* identifiers of the i-th input row, whatever the workers' completion order.
C2_OrderPreservation ==
    /\ \A i \in 1..Len(results) :
           /\ results[i][1] = df_input[i].hTF1
           /\ results[i][2] = df_input[i].hTF2
    /\ OutputBuilt =>
           /\ Len(df_output) = n_rows
           /\ \A i \in 1..n_rows :
                  /\ df_output[i].hTF1 = df_input[i].hTF1
                  /\ df_output[i].hTF2 = df_input[i].hTF2

\* Task 3 came back before task 2 did, and the first result is collected.
C2_Witness ==
    /\ num_processes > 1
    /\ Len(results) = 1
    /\ 3 \in DOMAIN cache /\ 2 \notin DOMAIN cache
    /\ df_input[1].hTF1 # df_input[3].hTF1
    /\ results[1][1] = df_input[1].hTF1

\* C3: with any worker count and any scheduling, the collected results and
\* the output records are those of the sequential run (worker count 1
\* included), and the run fails exactly when the sequential one does.
C3_SequentialEquivalence ==
    /\ pc \in {"collected", "built", "done"} => results = SequentialResults
    /\ OutputBuilt => LET df == DataFrame(SequentialResults)
                      IN  ~df.raised /\ df_output = df.rows
    /\ pc = "crashed" => DataFrame(SequentialResults).raised

C3_Witness ==
    /\ OutputBuilt
    /\ num_processes > 1
    /\ n_rows >= 2
    /\ df_output[1] # df_output[2]
    /\ df_output = DataFrame(SequentialResults).rows

\* The record a structurally valid row must give (C4).
IsOutputRecordOf(rec, row) ==
    /\ rec.hTF1 = row.hTF1
    /\ rec.hTF2 = row.hTF2
    /\ rec.Sequence_hTF1 = row.Sequence_hTF1
    /\ rec.Sequence_hTF2 = row.Sequence_hTF2
    /\ rec.Similarity_PercentIdentity.t \in {"float", "nan"}
    /\ rec.Similarity = row.similarity

\* C4: a structurally valid batch of n rows always completes, with exactly n
\* output records, one per row, each holding the six fields of its row.
C4_BatchCompleteness ==
    required_columns \subseteq columns =>
        /\ pc # "crashed"
        /\ OutputBuilt =>
               /\ Len(df_output) = n_rows
               /\ \A i \in 1..n_rows : IsOutputRecordOf(df_output[i], df_input[i])

\* C5: when the kernel raises for row i the batch is not aborted, output
\* record i is row i with percent identity not-a-number, and every other
\* output record is what it is in the run where the kernel did not raise
\* for row i.
C5_FailureIsolation ==
    \A i \in 1..n_rows :
        kernelLog[i] = "raise" =>
            /\ pc # "crashed"
            /\ OutputBuilt =>
                   LET other == DataFrame(
                           [k \in 1..n_rows |->
                               calculate_similarity_for_pair(
                                   df_input[k],
                                   IF k = i THEN "result" ELSE kernelLog[k],
                                   tieBreak).value]).rows
                   IN  /\ Len(df_output) = n_rows
                       /\ df_output[i] =
                              [hTF1 |-> df_input[i].hTF1,
                               hTF2 |-> df_input[i].hTF2,
                               Sequence_hTF1 |-> df_input[i].Sequence_hTF1,
                               Sequence_hTF2 |-> df_input[i].Sequence_hTF2,
                               Similarity_PercentIdentity |-> nan,
                               Similarity |-> df_input[i].similarity]
                       /\ \A j \in 1..n_rows : j # i => df_output[j] = other[j]

C5_Witness ==
    /\ OutputBuilt
    /\ \E i, j \in 1..n_rows :
           /\ kernelLog[i] = "raise"
           /\ kernelLog[j] = "result"
           /\ df_output[i].Similarity_PercentIdentity = nan
           /\ df_output[j].Similarity_PercentIdentity.t = "float"

\* The alignment the kernel computed for row i (when it returned one).
AlignmentOfRow(i) ==
    alignment_result(df_input[i].Sequence_hTF1, df_input[i].Sequence_hTF2,
                     tieBreak)

C7_ValidationPrecedesDispatch ==
    /\ [](~(required_columns \subseteq columns) =>
            /\ pc \in {"start", "loaded", "exit_read", "exit_columns"}
            /\ ~poolCreated
            /\ dispatched = {}
            /\ cache = <<>> /\ results = <<>>
            /\ df_output = <<>>
            /\ ~written)
    /\ [](dispatched # {} =>
            /\ required_columns \subseteq columns
            /\ poolCreated
            /\ pc \notin {"start", "loaded", "validated"})
    /\ [][(pc = "loaded" /\ ~(required_columns \subseteq columns)) =>
              pc' = "exit_columns"]_vars

C7_Witness ==
    /\ pc = "exit_columns"
    /\ ~(required_columns \subseteq columns)
    /\ columns # {}
    /\ n_rows > 0
    /\ ~poolCreated /\ dispatched = {} /\ ~written

(***************************************************************************)
(* The alignment kernel on one pair of sequences, in both argument orders, *)
(* through calculate_similarity_for_pair.                                  *)
(***************************************************************************)
AlignAlphabet == {"M", "C", "W"}

AlignSeqs ==
    UNION {[1..k -> AlignAlphabet] : k \in 1..MaxSeqLen} \cup {MKV.s, MKA.s}

PairRow(s1, s2) ==
    [hTF1 |-> Name("TF1"), Sequence_hTF1 |-> Str(s1),
     hTF2 |-> Name("TF2"), Sequence_hTF2 |-> Str(s2), similarity |-> Float(1, 2)]

\* The kernel's result for (s1, s2) and the tuple the function returns.
Aligned(s1, s2, tb) ==
    [ar |-> alignment_result(Str(s1), Str(s2), tb),
     out |-> calculate_similarity_for_pair(PairRow(s1, s2), "result", tb).value]

InitAlign ==
    /\ a_pc = "start"
    /\ a_seq1 \in AlignSeqs
    /\ a_seq2 \in AlignSeqs
    /\ tieBreak \in TieBreaks
    /\ a_fwd = <<>>
    /\ a_rev = <<>>
    /\ BatchIdle
    /\ QueryIdle

AlignForward ==
    /\ a_pc = "start"
    /\ a_fwd' = Aligned(a_seq1, a_seq2, tieBreak)
    /\ a_pc' = "forward"
    /\ UNCHANGED <<a_seq1, a_seq2, a_rev, tieBreak, batchVars, queryVars>>

AlignReverse ==
    /\ a_pc = "forward"
    /\ a_rev' = Aligned(a_seq2, a_seq1, tieBreak)
    /\ a_pc' = "done"
    /\ UNCHANGED <<a_seq1, a_seq2, a_fwd, tieBreak, batchVars, queryVars>>

NextAlign == AlignForward \/ AlignReverse

SpecAlign == InitAlign /\ [][NextAlign]_vars

\* C8: aligning a non-empty sequence with itself gives as many columns and
\* as many matches as the sequence is long, and percent identity 100.
C8_SelfAlignment ==
    (a_pc \in {"forward", "done"} /\ a_seq1 = a_seq2) =>
        /\ a_fwd.ar.length = Len(a_seq1)
        /\ a_fwd.ar.matches = Len(a_seq1)
        /\ a_fwd.out[5] = Float(100, 1)

C8_Witness ==
    /\ a_pc = "forward"
    /\ a_seq1 = MKV.s /\ a_seq2 = MKV.s
    /\ a_fwd.ar.length = 3 /\ a_fwd.ar.matches = 3
    /\ a_fwd.out[5] = Float(100, 1)

\* C9 as stated: (A, B) and (B, A) give the same score, the same matches and
\* length and the same percent identity.
C9_Symmetry ==
    a_pc = "done" =>
        /\ a_fwd.ar.score = a_rev.ar.score
        /\ a_fwd.ar.matches = a_rev.ar.matches
        /\ a_fwd.ar.length = a_rev.ar.length
        /\ a_fwd.out[5] = a_rev.out[5]

\* C9, amended: (A, B) and (B, A) give the same score; they give the same
\* matches, length and percent identity when the chosen alignment never had
\* to choose between a gap in A and a gap in B at equal score.
C9_ScoreSymmetry ==
    a_pc = "done" =>
        /\ a_fwd.ar.score = a_rev.ar.score
        /\ a_fwd.ar.tie = a_rev.ar.tie
        /\ ~a_fwd.ar.tie =>
               /\ a_fwd.ar.matches = a_rev.ar.matches
               /\ a_fwd.ar.length = a_rev.ar.length
               /\ a_fwd.out[5] = a_rev.out[5]

\* A gapped alignment of two different sequences, chosen without such a tie.
C9_Witness ==
    /\ a_pc = "done"
    /\ a_seq1 # a_seq2
    /\ ~a_fwd.ar.tie
    /\ a_fwd.ar.length > Len(a_seq1) /\ a_fwd.ar.length > Len(a_seq2)
    /\ a_fwd.ar.matches > 0
    /\ a_fwd.ar.score = a_rev.ar.score
    /\ a_fwd.out[5] = a_rev.out[5]

(***************************************************************************)
(* main() of TF-sequence-query.py.                                         *)
(***************************************************************************)
\* The hTF names of the model, and what UniProt holds for each.
HtfName(k) == Str(<<"TF", ToString(k)>>)
HtfNames == {HtfName(k) : k \in 1..MaxNames}
UniProtSequence(name) ==
    LET k == CHOOSE j \in 1..MaxNames : HtfName(j) = name
    IN  Str([j \in 1..k |-> IF j = 1 THEN "M" ELSE "K"])

\* The rows of pairs_htf_htf.csv: every pair of names, each pair with a
\* similarity value of its own.
PairRows ==
    {[hTF1 |-> HtfName(j), hTF2 |-> HtfName(k), similarity |-> Float(j, j + k)] :
        j, k \in 1..MaxNames}

\* What a request to UniProt comes to: an entry, no entry, a failed request
\* (RequestException), an entry without the sequence keys (KeyError), or an
\* index out of range (IndexError).
Responses == {"found", "no results", "RequestException", "KeyError", "IndexError"}

\* fetch_sequence_from_protein_name: the sequence, or None.
fetch_sequence_from_protein_name(protein_name, response) ==
    IF response = "found" THEN UniProtSequence(protein_name) ELSE None

\* A plausible slip: the second column's names are not collected.
all_htf_names_first_column(rows) == {rows[i].hTF1 : i \in 1..Len(rows)}

\* all_htf_names: the unique names of both columns.
all_htf_names(rows) ==
    {rows[i].hTF1 : i \in 1..Len(rows)} \cup {rows[i].hTF2 : i \in 1..Len(rows)}

\* The orders in which list(all_htf_names) may enumerate a set.
RECURSIVE ListsOf(_)
ListsOf(S) ==
    IF S = {} THEN {<<>>}
    ELSE UNION {{<<x>> \o l : l \in ListsOf(S \ {x})} : x \in S}

\* column.map(sequence_map).fillna("NOT_FOUND") on one name.
map_fillna(name, map) ==
    LET mapped == IF name \in DOMAIN map THEN map[name] ELSE nan
    IN  IF mapped \in {None, nan} THEN NOT_FOUND ELSE mapped

InitQuery ==
    /\ q_pc = "start"
    /\ \E n \in 0..MaxPairs : q_input \in [1..n -> PairRows]
    /\ q_todo = <<>>
    /\ sequence_map = <<>>
    /\ fetchLog = [name \in HtfNames |-> <<>>]
    /\ q_output = <<>>
    /\ tieBreak = "F"
    /\ BatchIdle
    /\ AlignIdle

\* pd.read_csv(INPUT_FILE)
QueryRead ==
    /\ q_pc = "start"
    /\ \/ q_pc' = "loaded"
       \/ q_pc' = "exit_read"
    /\ UNCHANGED <<q_input, q_todo, sequence_map, fetchLog, q_output,
                   tieBreak, batchVars, alignVars>>

\* Step 1, and the list the loop of step 2 runs over.
QueryCollectNames ==
    /\ q_pc = "loaded"
    /\ q_todo' \in ListsOf(all_htf_names(q_input))
    /\ q_pc' = "fetching"
    /\ UNCHANGED <<q_input, sequence_map, fetchLog, q_output, tieBreak,
                   batchVars, alignVars>>

\* One round of the loop of step 2.
QueryFetch ==
    /\ q_pc = "fetching"
    /\ q_todo # <<>>
    /\ LET htf_name == Head(q_todo)
       IN  IF htf_name \notin DOMAIN sequence_map
           THEN \E response \in Responses :
                    LET sequence == fetch_sequence_from_protein_name(htf_name,
                                                                     response)
                    IN  /\ sequence_map' =
                               [k \in DOMAIN sequence_map \cup {htf_name} |->
                                   IF k = htf_name THEN sequence
                                   ELSE sequence_map[k]]
                        /\ fetchLog' = [fetchLog EXCEPT
                                           ![htf_name] = Append(@, sequence)]
           ELSE UNCHANGED <<sequence_map, fetchLog>>
    /\ q_todo' = Tail(q_todo)
    /\ UNCHANGED <<q_pc, q_input, q_output, tieBreak, batchVars, alignVars>>

\* Step 3: the output frame, its sequence columns mapped from the names.
QueryBuild ==
    /\ q_pc = "fetching"
    /\ q_todo = <<>>
    /\ q_output' =
           [i \in 1..Len(q_input) |->
               [hTF1 |-> q_input[i].hTF1,
                Sequence_hTF1 |-> map_fillna(q_input[i].hTF1, sequence_map),
                hTF2 |-> q_input[i].hTF2,
                Sequence_hTF2 |-> map_fillna(q_input[i].hTF2, sequence_map),
                similarity |-> q_input[i].similarity]]
    /\ q_pc' = "built"
    /\ UNCHANGED <<q_input, q_todo, sequence_map, fetchLog, tieBreak,
                   batchVars, alignVars>>

\* Step 4: df_output.to_csv(OUTPUT_FILE)
QuerySave ==
    /\ q_pc = "built"
    /\ \/ q_pc' = "done"
       \/ q_pc' = "exit_save"
    /\ UNCHANGED <<q_input, q_todo, sequence_map, fetchLog, q_output,
                   tieBreak, batchVars, alignVars>>

NextQuery ==
    \/ QueryRead
    \/ QueryCollectNames
    \/ QueryFetch
    \/ QueryBuild
    \/ QuerySave

SpecQuery == InitQuery /\ [][NextQuery]_vars

\* The names occurring in either column of the input, read off the rows.
NamesInInput ==
    {name \in HtfNames :
        \E i \in 1..Len(q_input) : name \in {q_input[i].hTF1, q_input[i].hTF2}}

\* What the one fetch of a name returned, as a sequence cell.
CellFor(name) ==
    IF fetchLog[name][1] = None THEN NOT_FOUND ELSE fetchLog[name][1]

\* C10: every name of either column is fetched exactly once, no name twice
\* and no other name at all, all fetches are over before an output row
\* exists, and each output row keeps its names and similarity and carries,
\* for each name, the fetched sequence, the sentinel exactly when the fetch
\* returned none.
C10_LookupTable ==
    /\ \A name \in HtfNames :
           /\ Len(fetchLog[name]) <= 1
           /\ name \notin NamesInInput => fetchLog[name] = <<>>
    /\ q_pc \in {"built", "done", "exit_save"} =>
           /\ q_todo = <<>>
           /\ \A name \in NamesInInput : Len(fetchLog[name]) = 1
           /\ Len(q_output) = Len(q_input)
           /\ \A i \in 1..Len(q_input) :
                  /\ q_output[i].hTF1 = q_input[i].hTF1
                  /\ q_output[i].hTF2 = q_input[i].hTF2
                  /\ q_output[i].similarity = q_input[i].similarity
                  /\ q_output[i].Sequence_hTF1 = CellFor(q_input[i].hTF1)
                  /\ q_output[i].Sequence_hTF2 = CellFor(q_input[i].hTF2)
                  /\ q_output[i].Sequence_hTF1 = NOT_FOUND <=>
                         fetchLog[q_input[i].hTF1][1] = None
                  /\ q_output[i].Sequence_hTF2 = NOT_FOUND <=>
                         fetchLog[q_input[i].hTF2][1] = None
    /\ q_pc \notin {"built", "done", "exit_save"} => q_output = <<>>

\* Two rows sharing a name, one name found and one not.
C10_Witness ==
    /\ q_pc = "built"
    /\ Len(q_input) = 2
    /\ q_input[1].hTF1 = q_input[2].hTF2
    /\ q_input[1].hTF2 # q_input[1].hTF1
    /\ q_output[1].Sequence_hTF1 = UniProtSequence(q_input[1].hTF1)
    /\ q_output[2].Sequence_hTF2 = UniProtSequence(q_input[1].hTF1)
    /\ q_output[1].Sequence_hTF2 = NOT_FOUND
    /\ Len(fetchLog[q_input[1].hTF1]) = 1

====
